---- MODULE Spec2Model ----
(***************************************************************************)
(* palmer-penguins.ipynb: one linear notebook that loads the Palmer        *)
(* penguins table, drops incomplete rows, builds X and y, splits them,     *)
(* fits a classifier, predicts, scores and plots.                          *)
(*                                                                         *)
(* The notebook is run top to bottom ("Run All"): pc is the position in    *)
(* Cells, the code cells that change or print state, in file order.  A     *)
(* cell that raises stops the run (error # "none").  The library calls     *)
(* are modelled by their documented behaviour (pandas dropna / loc,        *)
(* sklearn train_test_split, fit / predict, accuracy_score,                *)
(* classification_report); the learning algorithm itself is a black box:   *)
(* fit picks ANY function from feature vectors to the classes seen in      *)
(* y_train.  Cells that only display a value (X.head(), y.head(),          *)
(* y_test.values, help(...), y_test[0:10].values) and the import cells     *)
(* change nothing and are left out.                                        *)
(***************************************************************************)
EXTENDS Integers, Sequences, FiniteSets, TLC

VARIABLES penguins, data, X, y, X_train, X_test, y_train, y_test,
          model, y_pred, report, printed_accuracy, printed_report, fig,
          uncommented, names, pc, error, log

vars == <<penguins, data, X, y, X_train, X_test, y_train, y_test,
          model, y_pred, report, printed_accuracy, printed_report, fig,
          uncommented, names, pc, error, log>>

frame == <<data, X, y, X_train, X_test, y_train, y_test>>

(* ------------------------------ bounds -------------------------------- *)
\* Largest number of rows of the loaded table.
MaxRows == 4

(* --------------------------- the data set ----------------------------- *)
NaN == "NaN"

Columns == {"species", "island", "bill_length_mm", "bill_depth_mm",
            "flipper_length_mm", "body_mass_g", "sex"}

\* Rows the loaded table is built from: two complete observations of
\* different species, a row with every measurement (and sex) missing, and a
\* row whose only missing value is in the unused column sex.
AdelieMale ==
    [species |-> "Adelie", island |-> "Torgersen", bill_length_mm |-> "39.1",
     bill_depth_mm |-> "18.7", flipper_length_mm |-> "181",
     body_mass_g |-> "3750", sex |-> "Male"]

GentooFemale ==
    [species |-> "Gentoo", island |-> "Biscoe", bill_length_mm |-> "46.1",
     bill_depth_mm |-> "13.2", flipper_length_mm |-> "211",
     body_mass_g |-> "4500", sex |-> "Female"]

Unmeasured ==
    [species |-> "Adelie", island |-> "Torgersen", bill_length_mm |-> NaN,
     bill_depth_mm |-> NaN, flipper_length_mm |-> NaN,
     body_mass_g |-> NaN, sex |-> NaN]

Unsexed == [AdelieMale EXCEPT !.sex = NaN]

RowPool == {AdelieMale, GentooFemale, Unmeasured, Unsexed}

\* seaborn returns a DataFrame with a RangeIndex 0..n-1: a sequence of
\* (index label, row) pairs.
RangeIndexed(rows) ==
    [i \in 1..Len(rows) |-> [index |-> i - 1, row |-> rows[i]]]

Datasets ==
    UNION {{RangeIndexed(rows) : rows \in [1..n -> RowPool]} : n \in 0..MaxRows}

(* ------------------------- pandas operations -------------------------- *)
Index(frame_) == {frame_[i].index : i \in 1..Len(frame_)}

Complete(r) == \A c \in DOMAIN r : r[c] # NaN

\* DataFrame.dropna() with its defaults (axis=0, how='any', subset=None):
\* drops every row that has a missing value in any column, keeps the index
\* labels and the order of the others.
DropNaFeaturesOnly(frame_) ==
    SelectSeq(frame_,
              LAMBDA e : \A c \in {"bill_length_mm", "bill_depth_mm",
                                   "flipper_length_mm", "body_mass_g"} :
                            e.row[c] # NaN)

dropna(frame_) == SelectSeq(frame_, LAMBDA e : Complete(e.row))

feature_columns ==
    <<"bill_length_mm", "bill_depth_mm", "flipper_length_mm", "body_mass_g">>

Range(s) == {s[i] : i \in 1..Len(s)}

\* data.loc[:, cols]: every row, the listed columns.
LocColumns(frame_, cols) ==
    [i \in 1..Len(frame_) |->
        [index |-> frame_[i].index,
         row |-> [c \in Range(cols) |-> frame_[i].row[c]]]]

\* data.loc[:, col]: a Series, one value per row under the same label.
LocColumn(frame_, col) ==
    [i \in 1..Len(frame_) |->
        [index |-> frame_[i].index, value |-> frame_[i].row[col]]]

Values(series) == [i \in 1..Len(series) |-> series[i].value]

(* ----------------------- sklearn: splitting --------------------------- *)
\* test_size = 0.3, as the fraction TestSizeNum / TestSizeDen.
TestSizeNum == 3
TestSizeDen == 10

Ceil(a, b) == (a + b - 1) \div b

\* _validate_shuffle_split: n_test = ceil(test_size * n_samples), and with
\* train_size=None n_train = n_samples - n_test.
NTest(n) == Ceil(TestSizeNum * n, TestSizeDen)
NTrain(n) == n - NTest(n)

\* shuffle=True: a random permutation of the row positions.
Shuffles(n) == {p \in [1..n -> 1..n] : \A i, j \in 1..n : p[i] = p[j] => i = j}

\* _safe_indexing: positional selection, in the order of the indices.
SafeIndexing(arr, ind) == [i \in 1..Len(ind) |-> arr[ind[i]]]

\* ShuffleSplit: the first n_test entries of the permutation are the test
\* positions, the next n_train the train positions.
TestIndices(perm) == [i \in 1..NTest(Len(perm)) |-> perm[i]]

TrainIndicesOverlapping(perm) ==
    [i \in 1..NTrain(Len(perm)) |-> perm[NTest(Len(perm)) + i - 1]]

TrainIndices(perm) ==
    [i \in 1..NTrain(Len(perm)) |-> perm[NTest(Len(perm)) + i]]

\* train_test_split(Xa, ya, test_size=0.3) under the permutation perm:
\* every array is indexed with the same train and test positions.
TrainTestSplitLabelsUnshuffled(Xa, ya, perm) ==
    [X_train |-> SafeIndexing(Xa, TrainIndices(perm)),
     X_test  |-> SafeIndexing(Xa, TestIndices(perm)),
     y_train |-> SubSeq(ya, NTest(Len(perm)) + 1, Len(perm)),
     y_test  |-> SubSeq(ya, 1, NTest(Len(perm)))]

train_test_split(Xa, ya, perm) ==
    [X_train |-> SafeIndexing(Xa, TrainIndices(perm)),
     X_test  |-> SafeIndexing(Xa, TestIndices(perm)),
     y_train |-> SafeIndexing(ya, TrainIndices(perm)),
     y_test  |-> SafeIndexing(ya, TestIndices(perm))]

(* ----------------------- sklearn: estimators -------------------------- *)
Project(r) == [c \in Range(feature_columns) |-> r[c]]

\* The feature vectors a fitted model can be asked about.
FeatureSpace == {Project(r) : r \in {q \in RowPool : Complete(q)}}

HasNaN(Xa) == \E i \in 1..Len(Xa) : ~Complete(Xa[i].row)

\* An estimator: its class, the arguments of its constructor call, and,
\* once fitted, the classes seen, the learned decision function and the
\* index labels of the rows it was fitted on.
Estimator(kind, params) ==
    [kind |-> kind, params |-> params, fitted |-> FALSE, classes |-> {},
     f |-> <<>>, fit_index |-> {}]

NoModel == Estimator("unbound", "")

\* KNeighborsClassifier() looks at n_neighbors = 5 neighbours.
n_neighbors == 5

\* estimator.fit(Xa, ya): the set of models fitting may produce.  classes_
\* is the set of labels in ya; the decision function is any function from
\* feature vectors to classes_.  Empty when fit raises: missing values in
\* Xa, or an SVC given a single class.
fit(m, Xa, ya) ==
    IF HasNaN(Xa) \/ (m.kind = "SVC" /\ Cardinality(Range(Values(ya))) < 2)
    THEN {}
    ELSE {[m EXCEPT !.fitted = TRUE,
                    !.classes = Range(Values(ya)),
                    !.f = g,
                    !.fit_index = Index(Xa)] :
             g \in [FeatureSpace -> Range(Values(ya))]}

\* estimator.predict(Xa) raises for missing values, and for a
\* KNeighborsClassifier fitted on fewer than n_neighbors rows.
PredictRaises(m, Xa) ==
    \/ HasNaN(Xa)
    \/ m.kind = "KNeighborsClassifier" /\ Cardinality(m.fit_index) < n_neighbors

\* estimator.predict(Xa): an array with one label per row of Xa, in order.
predict(m, Xa) == [i \in 1..Len(Xa) |-> m.f[Xa[i].row]]

(* ------------------------- sklearn: metrics --------------------------- *)
RECURSIVE GCD(_, _)
GCD(a, b) == IF b = 0 THEN a ELSE GCD(b, a % b)

\* The value of n / d (0 / 0 is nan, kept as <<0, 0>>).
Frac(n, d) == IF d = 0 THEN <<0, 0>> ELSE <<n \div GCD(n, d), d \div GCD(n, d)>>

Count(S) == Cardinality(S)

\* accuracy_score(a, b): the fraction of positions where a and b agree.
AccuracyOfMismatches(a, b) ==
    Frac(Count({i \in 1..Len(a) : a[i] # b[i]}), Len(a))

accuracy_score(a, b) ==
    Frac(Count({i \in 1..Len(a) : a[i] = b[i]}), Len(a))

\* estimator.score(Xa, ya) = accuracy_score(ya, estimator.predict(Xa)).
score(m, Xa, ya) == accuracy_score(Values(ya), predict(m, Xa))

\* A ratio as the report prints it, '{:.2f}': hundredths, ties to even
\* (every tie that can arise here, k/8, is exact in binary); the
\* zero_division default turns 0/0 into 0.0.
Round2(n, d) ==
    IF d = 0 THEN 0
    ELSE LET q == (100 * n) \div d
             r == (100 * n) % d
         IN  IF 2 * r > d THEN q + 1
             ELSE IF 2 * r < d THEN q
             ELSE IF q % 2 = 0 THEN q ELSE q + 1

\* classification_report(y_true, y_pred): one row per label occurring in
\* either argument, with precision = tp / #(y_pred = label),
\* recall = tp / #(y_true = label), f1 = 2 tp / (both counts), and
\* support = #(y_true = label).  (The average rows are not modelled.)
classification_report(true_, pred_) ==
    [l \in Range(true_) \cup Range(pred_) |->
        LET tp == Count({i \in 1..Len(true_) : true_[i] = l /\ pred_[i] = l})
            np == Count({i \in 1..Len(pred_) : pred_[i] = l})
            nt == Count({i \in 1..Len(true_) : true_[i] = l})
        IN  [precision |-> Round2(tp, np), recall |-> Round2(tp, nt),
             f1 |-> Round2(2 * tp, np + nt), support |-> nt]]

(* --------------------------- the notebook ----------------------------- *)
\* The code cells, in file order.
CellsFitBeforeSplit ==
    <<"cell3", "cell5", "cell7", "cell17", "cell18", "cell11", "cell20",
      "cell24", "cell26", "cell27", "cell30", "cell31">>

Cells ==
    <<"cell3", "cell5", "cell7", "cell11", "cell17", "cell18", "cell20",
      "cell24", "cell26", "cell27", "cell30", "cell31">>

\* The cell at pc is the next to run, unless an earlier cell raised.
Runs(cell) == error = "none" /\ pc <= Len(Cells) /\ Cells[pc] = cell

Bound(ns) == ns \subseteq names

\* The cell stops with an exception after starting the steps in `steps`.
Raise(exception, steps) ==
    /\ error' = exception
    /\ log' = log \o steps
    /\ pc' = pc

\* The cell completes the steps in `steps`, binding the names in `ns`.
Done(ns, steps) ==
    /\ error' = error
    /\ log' = log \o steps
    /\ pc' = pc + 1
    /\ names' = names \cup ns

Init ==
    /\ penguins \in Datasets
    /\ data = <<>>
    /\ X = <<>>
    /\ y = <<>>
    /\ X_train = <<>>
    /\ X_test = <<>>
    /\ y_train = <<>>
    /\ y_test = <<>>
    /\ model = NoModel
    /\ y_pred = <<>>
    /\ report = <<>>
    /\ printed_accuracy = <<0, 0>>
    /\ printed_report = <<>>
    /\ fig = <<>>
    /\ uncommented = "none"
    /\ names = {}
    /\ pc = 1
    /\ error = "none"
    /\ log = <<>>

\* data = sns.load_dataset('penguins')
Cell3 ==
    /\ Runs("cell3")
    /\ data' = penguins
    /\ Done({"data"}, <<"load">>)
    /\ UNCHANGED <<penguins, X, y, X_train, X_test, y_train, y_test, model,
                   y_pred, report, printed_accuracy, printed_report, fig,
                   uncommented>>

\* data = data.dropna()
Cell5 ==
    /\ Runs("cell5")
    /\ IF Bound({"data"})
       THEN /\ data' = dropna(data)
            /\ Done({"data"}, <<"dropna">>)
       ELSE /\ Raise("NameError", <<"dropna">>)
            /\ UNCHANGED <<data, names>>
    /\ UNCHANGED <<penguins, X, y, X_train, X_test, y_train, y_test, model,
                   y_pred, report, printed_accuracy, printed_report, fig,
                   uncommented>>

\* X = data.loc[:, feature_columns]; y = data.loc[:, 'species']
Cell7 ==
    /\ Runs("cell7")
    /\ IF Bound({"data"})
       THEN /\ X' = LocColumns(data, feature_columns)
            /\ y' = LocColumn(data, "species")
            /\ Done({"feature_columns", "X", "y"}, <<"build">>)
       ELSE /\ Raise("NameError", <<"build">>)
            /\ UNCHANGED <<X, y, names>>
    /\ UNCHANGED <<penguins, data, X_train, X_test, y_train, y_test, model,
                   y_pred, report, printed_accuracy, printed_report, fig,
                   uncommented>>

\* X_train, X_test, y_train, y_test = train_test_split(X, y, test_size = 0.3)
\* train_test_split raises ValueError when the train set would be empty.
Cell11 ==
    /\ Runs("cell11")
    /\ IF ~Bound({"X", "y"})
       THEN /\ Raise("NameError", <<"split">>)
            /\ UNCHANGED <<X_train, X_test, y_train, y_test, names>>
       ELSE IF NTrain(Len(X)) = 0
       THEN /\ Raise("ValueError", <<"split">>)
            /\ UNCHANGED <<X_train, X_test, y_train, y_test, names>>
       ELSE \E perm \in Shuffles(Len(X)) :
            LET parts == train_test_split(X, y, perm)
            IN  /\ X_train' = parts.X_train
                /\ X_test' = parts.X_test
                /\ y_train' = parts.y_train
                /\ y_test' = parts.y_test
                /\ Done({"X_train", "X_test", "y_train", "y_test"}, <<"split">>)
    /\ UNCHANGED <<penguins, data, X, y, model, y_pred, report,
                   printed_accuracy, printed_report, fig,
                   uncommented>>

\* model = DecisionTreeClassifier(max_depth=2)
Cell17 ==
    /\ Runs("cell17")
    /\ model' = Estimator("DecisionTreeClassifier", "max_depth=2")
    /\ Done({"model"}, <<>>)
    /\ UNCHANGED <<penguins, data, X, y, X_train, X_test, y_train, y_test,
                   y_pred, report, printed_accuracy, printed_report, fig,
                   uncommented>>

\* The models model.fit(X_train, y_train) of cell 18 may produce.
FirstFitOnAllRows == fit(model, X, y)

FirstFit == fit(model, X_train, y_train)

\* model.fit(X_train, y_train)
Cell18 ==
    /\ Runs("cell18")
    /\ IF ~Bound({"model", "X_train", "y_train"})
       THEN /\ Raise("NameError", <<"fit">>)
            /\ UNCHANGED <<model, names>>
       ELSE IF FirstFit = {}
       THEN /\ Raise("ValueError", <<"fit">>)
            /\ UNCHANGED <<model, names>>
       ELSE /\ model' \in FirstFit
            /\ Done({}, <<"fit">>)
    /\ UNCHANGED <<penguins, data, X, y, X_train, X_test, y_train, y_test,
                   y_pred, report, printed_accuracy, printed_report, fig,
                   uncommented>>

\* y_pred = model.predict(X_test)
Cell20 ==
    /\ Runs("cell20")
    /\ IF ~Bound({"model", "X_test"})
       THEN /\ Raise("NameError", <<"predict">>)
            /\ UNCHANGED <<y_pred, names>>
       ELSE IF ~model.fitted
       THEN /\ Raise("NotFittedError", <<"predict">>)
            /\ UNCHANGED <<y_pred, names>>
       ELSE IF PredictRaises(model, X_test)
       THEN /\ Raise("ValueError", <<"predict">>)
            /\ UNCHANGED <<y_pred, names>>
       ELSE /\ y_pred' = predict(model, X_test)
            /\ Done({"y_pred"}, <<"predict">>)
    /\ UNCHANGED <<penguins, data, X, y, X_train, X_test, y_train, y_test,
                   model, report, printed_accuracy, printed_report, fig,
                   uncommented>>

\* accuracy_score(y_pred, y_test)
Cell24 ==
    /\ Runs("cell24")
    /\ IF Bound({"y_pred", "y_test"})
       THEN /\ printed_accuracy' = accuracy_score(y_pred, Values(y_test))
            /\ Done({}, <<"score">>)
       ELSE /\ Raise("NameError", <<"score">>)
            /\ UNCHANGED <<printed_accuracy, names>>
    /\ UNCHANGED <<penguins, data, X, y, X_train, X_test, y_train, y_test,
                   model, y_pred, report, printed_report, fig,
                   uncommented>>

\* report = classification_report(y_pred, y_test); print(report)
Cell26 ==
    /\ Runs("cell26")
    /\ IF Bound({"y_pred", "y_test"})
       THEN /\ report' = classification_report(y_pred, Values(y_test))
            /\ printed_report' = report'
            /\ Done({"report"}, <<"score">>)
       ELSE /\ Raise("NameError", <<"score">>)
            /\ UNCHANGED <<report, printed_report, names>>
    /\ UNCHANGED <<penguins, data, X, y, X_train, X_test, y_train, y_test,
                   model, y_pred, printed_accuracy, fig, uncommented>>

\* y.unique(): the distinct values in order of first appearance.
Unique(seq) ==
    LET U[i \in 0..Len(seq)] ==
            IF i = 0 THEN <<>>
            ELSE IF seq[i] \in Range(U[i - 1]) THEN U[i - 1]
                 ELSE Append(U[i - 1], seq[i])
    IN  U[Len(seq)]

\* plot_tree(model, ax=ax, feature_names = feature_columns,
\*           class_names = y.unique())
Cell27 ==
    /\ Runs("cell27")
    /\ IF ~Bound({"model", "feature_columns", "y"})
       THEN /\ Raise("NameError", <<"plot">>)
            /\ UNCHANGED <<fig, names>>
       ELSE IF ~model.fitted
       THEN /\ Raise("NotFittedError", <<"plot">>)
            /\ UNCHANGED <<fig, names>>
       ELSE /\ fig' = [tree |-> model.f, feature_names |-> feature_columns,
                       class_names |-> Unique(Values(y))]
            /\ Done({"fig", "ax"}, <<"plot">>)
    /\ UNCHANGED <<penguins, data, X, y, X_train, X_test, y_train, y_test,
                   model, y_pred, report, printed_accuracy, printed_report,
                   uncommented>>

\* Cell 30 as the reader edits it: the line that is uncommented, if any.
ModelChoices ==
    {"none", "DecisionTreeClassifier", "RandomForestClassifier", "SVC",
     "KNeighborsClassifier"}

\* The value of `model` after cell 30: a new estimator built with no
\* arguments, or the estimator of cell 17 when every line stays commented.
ChosenModelAlwaysNew(choice, m) ==
    IF choice = "none" THEN Estimator("DecisionTreeClassifier", "")
    ELSE Estimator(choice, "")

ChosenModel(choice, m) ==
    IF choice = "none" THEN m ELSE Estimator(choice, "")

\* # model = DecisionTreeClassifier() ... # model = KNeighborsClassifier()
Cell30 ==
    /\ Runs("cell30")
    /\ \E choice \in ModelChoices :
          /\ uncommented' = choice
          /\ model' = ChosenModel(choice, model)
          /\ Done(IF choice = "none" THEN {} ELSE {"model"}, <<>>)
    /\ UNCHANGED <<penguins, data, X, y, X_train, X_test, y_train, y_test,
                   y_pred, report, printed_accuracy, printed_report, fig>>

\* model.fit(X_train, y_train)
\* y_pred = model.predict(X_test)
\* report = classification_report(y_test, y_pred)
\* print(f'Model accuracy: {model.score(X_test, y_test)}')
\* print(report)
Cell31 ==
    /\ Runs("cell31")
    /\ IF ~Bound({"model", "X_train", "y_train"})
       THEN /\ Raise("NameError", <<"fit">>)
            /\ UNCHANGED <<model, y_pred, report, printed_accuracy,
                           printed_report, names>>
       ELSE IF fit(model, X_train, y_train) = {}
       THEN /\ Raise("ValueError", <<"fit">>)
            /\ UNCHANGED <<model, y_pred, report, printed_accuracy,
                           printed_report, names>>
       ELSE \E fitted \in fit(model, X_train, y_train) :
            /\ model' = fitted
            /\ IF ~Bound({"X_test"})
               THEN /\ Raise("NameError", <<"fit", "predict">>)
                    /\ UNCHANGED <<y_pred, report, printed_accuracy,
                                   printed_report, names>>
               ELSE IF PredictRaises(fitted, X_test)
               THEN /\ Raise("ValueError", <<"fit", "predict">>)
                    /\ UNCHANGED <<y_pred, report, printed_accuracy,
                                   printed_report, names>>
               ELSE /\ y_pred' = predict(fitted, X_test)
                    /\ IF ~Bound({"y_test"})
                       THEN /\ Raise("NameError", <<"fit", "predict", "score">>)
                            /\ names' = names \cup {"y_pred"}
                            /\ UNCHANGED <<report, printed_accuracy,
                                           printed_report>>
                       ELSE /\ report' =
                                 classification_report(Values(y_test), y_pred')
                            /\ printed_accuracy' = score(fitted, X_test, y_test)
                            /\ printed_report' = report'
                            /\ Done({"y_pred", "report"},
                                    <<"fit", "predict", "score">>)
    /\ UNCHANGED <<penguins, data, X, y, X_train, X_test, y_train, y_test, fig,
                   uncommented>>

Next ==
    \/ Cell3
    \/ Cell5
    \/ Cell7
    \/ Cell11
    \/ Cell17
    \/ Cell18
    \/ Cell20
    \/ Cell24
    \/ Cell26
    \/ Cell27
    \/ Cell30
    \/ Cell31

Spec == Init /\ [][Next]_vars

Finished == error = "none" /\ pc = Len(Cells) + 1

(* ============================= properties ============================= *)
\* The step has been run to completion (a step that raised is the last
\* entry of log, with error set).
Completed(step) ==
    \E i \in 1..Len(log) : log[i] = step /\ (i < Len(log) \/ error = "none")

StepOrder ==
    <<"load", "dropna", "build", "split", "fit", "predict", "score", "plot">>

Rank(step) == CHOOSE r \in 1..Len(StepOrder) : StepOrder[r] = step

\* C1: the steps run in the order load, drop incomplete rows, build X and
\* y, split, fit, predict, score, plot: whenever a step is started, every
\* step that precedes it in this order was started and completed before.
C1_StepsInOrder ==
    \A i \in 1..Len(log) :
        \A r \in 1..(Rank(log[i]) - 1) :
            \E j \in 1..(i - 1) : log[j] = StepOrder[r]

\* A whole run: every step once, then the refit, prediction and scoring of
\* the last cell.
C1_Witness ==
    /\ Finished
    /\ log = <<"load", "dropna", "build", "split", "fit", "predict", "score",
               "score", "plot", "fit", "predict", "score">>

\* The index labels of the loaded rows without a missing value.
CompleteLabels ==
    {penguins[i].index : i \in {k \in 1..Len(penguins) :
                                   \A c \in Columns : penguins[k].row[c] # NaN}}

\* The loaded row with index label l.
Loaded(l) == penguins[l + 1].row

\* C2: after data = data.dropna(), data holds exactly the loaded rows that
\* have no missing value in any column (none of them discarded, in the
\* loaded order), and every row of X, y, the four parts of the split and
\* the rows a model was fitted on is one of them.
C2_OnlyCompleteRowsUsed ==
    Completed("dropna") =>
        /\ Index(data) = CompleteLabels
        /\ \A i \in 1..Len(data) : data[i].row = Loaded(data[i].index)
        /\ \A i, j \in 1..Len(data) : i < j => data[i].index < data[j].index
        /\ \A part \in {X, y, X_train, X_test, y_train, y_test} :
              Index(part) \subseteq CompleteLabels
        /\ model.fit_index \subseteq CompleteLabels

\* A finished run on a table holding a row complete but for sex, a row
\* without measurements, and complete rows.
C2_Witness ==
    /\ Finished
    /\ \E i, j \in 1..Len(penguins) :
          penguins[i].row = Unsexed /\ penguins[j].row = Unmeasured
    /\ Len(data) = 2
    /\ Len(penguins) = 4

\* C3: train_test_split partitions the cleaned rows: train and test are
\* disjoint, neither is empty, together they are the rows of the cleaned
\* table, and no row occurs twice.
C3_SplitPartitions ==
    Completed("split") =>
        /\ Index(X_train) \cap Index(X_test) = {}
        /\ Index(X_train) # {} /\ Index(X_test) # {}
        /\ Index(X_train) \cup Index(X_test) = Index(data)
        /\ Len(X_train) + Len(X_test) = Len(data)
        /\ Index(y_train) \cap Index(y_test) = {}
        /\ Index(y_train) \cup Index(y_test) = Index(data)
        /\ Len(y_train) + Len(y_test) = Len(data)

\* A split of four cleaned rows into two train and two test rows.
C3_Witness ==
    /\ Completed("split")
    /\ Len(X_test) = 2
    /\ Len(X_train) = 2

\* C4: every fitted model, the first and the refitted one, was fitted on
\* the rows of X_train and on no row of X_test, the rows it is evaluated
\* on; each prediction is made for a row of X_test.
C4_TestSetHeldOut ==
    model.fitted =>
        /\ model.fit_index = Index(X_train)
        /\ model.fit_index \cap Index(X_test) = {}
        /\ "y_pred" \in names => Len(y_pred) = Len(X_test)

\* The last cell has refitted and evaluated a replacement model.
C4_Witness ==
    /\ Finished
    /\ model.kind = "RandomForestClassifier"
    /\ model.fitted
    /\ Len(y_pred) = 2

\* The last cell ran to completion.
Refitted == Finished

TrulyOf(l) == {i \in 1..Len(y_test) : y_test[i].value = l}
PredictedAs(l) == {i \in 1..Len(y_pred) : y_pred[i] = l}

\* The first report is the one on display: cell 26 has run, the last cell
\* has not.
FirstReportShown ==
    /\ error = "none"
    /\ pc <= Len(Cells)
    /\ \E i \in 1..(pc - 1) : Cells[i] = "cell26"

\* C6: the first classification report gives, for every species, as
\* precision the share of the test rows predicted as that species that
\* truly are of it, and as recall the share of the test rows truly of that
\* species that were predicted as it: the values
\* classification_report(y_test, y_pred) gives.
C6_FirstReportPrecisionRecall ==
    FirstReportShown =>
        /\ \A l \in DOMAIN printed_report :
              /\ printed_report[l].precision =
                    Round2(Count(TrulyOf(l) \cap PredictedAs(l)),
                           Count(PredictedAs(l)))
              /\ printed_report[l].recall =
                    Round2(Count(TrulyOf(l) \cap PredictedAs(l)),
                           Count(TrulyOf(l)))
        /\ \A l \in DOMAIN printed_report :
              /\ printed_report[l].precision =
                    classification_report(Values(y_test), y_pred)[l].precision
              /\ printed_report[l].recall =
                    classification_report(Values(y_test), y_pred)[l].recall

\* The number of test rows predicted correctly, over the number of test
\* rows.
CorrectOverTotal ==
    Frac(Count({i \in 1..Len(y_test) : y_pred[i] = y_test[i].value}),
         Len(y_test))

\* An accuracy is on display and y_pred is what it was computed from.
AccuracyShown ==
    /\ error = "none"
    /\ \E i \in 1..(pc - 1) : Cells[i] = "cell24"

\* C7: the accuracy printed (by accuracy_score(y_pred, y_test), and by
\* model.score(X_test, y_test) in the last cell) is correct / total over
\* the test rows, and accuracy_score gives the same value with its
\* arguments swapped.
C7_AccuracyIsCorrectOverTotal ==
    AccuracyShown =>
        /\ printed_accuracy = CorrectOverTotal
        /\ accuracy_score(y_pred, Values(y_test)) = printed_accuracy
        /\ accuracy_score(Values(y_test), y_pred) = printed_accuracy

\* The last cell printed the score of a refitted model that gets one of two
\* test rows right.
C7_Witness ==
    /\ Finished
    /\ uncommented = "RandomForestClassifier"
    /\ printed_accuracy = <<1, 2>>

FeatureSet ==
    {"bill_length_mm", "bill_depth_mm", "flipper_length_mm", "body_mass_g"}

\* Row i of the features Xa and entry i of the labels ya are the
\* measurements and the species of one loaded observation.
Paired(Xa, ya) ==
    /\ Len(Xa) = Len(ya)
    /\ \A i \in 1..Len(Xa) :
          /\ Xa[i].index = ya[i].index
          /\ DOMAIN Xa[i].row = FeatureSet
          /\ \A c \in FeatureSet : Xa[i].row[c] = Loaded(Xa[i].index)[c]
          /\ ya[i].value = Loaded(ya[i].index).species

\* C8: X holds the four measurement columns and y the species of the
\* cleaned rows, in the order of data; X_train / y_train and X_test /
\* y_test are paired row by row after the split; and each prediction of
\* the fitted model is the one for the test row at its position, whose
\* true species is the entry of y_test at that position.
C8_FeaturesAndLabelsPaired ==
    /\ Completed("build") =>
          /\ Paired(X, y)
          /\ Len(X) = Len(data)
          /\ \A i \in 1..Len(X) : X[i].index = data[i].index
    /\ Completed("split") => Paired(X_train, y_train) /\ Paired(X_test, y_test)
    /\ (error = "none" /\ model.fitted /\ "y_pred" \in names) =>
          /\ Len(y_pred) = Len(y_test)
          /\ \A i \in 1..Len(y_pred) : y_pred[i] = model.f[X_test[i].row]

\* A finished run whose shuffled split put a later row before an earlier
\* one in the test set, and rows of both species.
C8_Witness ==
    /\ Finished
    /\ Len(X_test) = 2
    /\ X_test[1].index > X_test[2].index
    /\ y_test[1].value # y_test[2].value

====
